---- MODULE Spec2Model ----
(***************************************************************************)
(* RagAgent (langchain/automaton/agent_implementations/rag_agent.py):      *)
(* the step dispatch on the last event of the log and the run generator    *)
(* that iterates memory_manager.process / step / yield from / extend.      *)
(* The retriever, the LLM program and the memory manager are external      *)
(* collaborators: their results are chosen from small sets.                *)
(***************************************************************************)
EXTENDS Integers, Sequences, FiniteSets, TLC

\* ----------------------------------------------------------------- bounds
MaxIter == 4        \* largest max_iterations a caller passes
MaxInit == 2        \* longest caller-supplied initial log

\* ---------------------------------------------------------- message model
\* Python's None, where the code uses it for "no last message" / "no exception"
None == [tag |-> "None"]

HumanMessage(c)      == [tag |-> "HumanMessage", content |-> c]
AIMessage(c)         == [tag |-> "AIMessage", content |-> c]
SystemMessage(c)     == [tag |-> "SystemMessage", content |-> c]
RetrievalRequest(q)  == [tag |-> "RetrievalRequest", query |-> q]
RetrievalResponse(r) == [tag |-> "RetrievalResponse", results |-> r]
AgentFinish(r)       == [tag |-> "AgentFinish", result |-> r]

Doc1 == [page_content |-> "A", metadata |-> [f \in {"title"} |-> "T"]]

\* isinstance(message, BaseMessage): the chat messages
IsBaseMessage(m) == m.tag \in {"HumanMessage", "AIMessage", "SystemMessage"}

\* events a caller may put in the initial log, one for each case of step;
\* human messages with content and system messages enter a log through
\* the LLM program and the summarizing memory manager
InitEvents ==
    { HumanMessage(""), AIMessage("a"), RetrievalRequest("q"),
      RetrievalResponse(<<>>), AgentFinish("done") }

RECURSIVE SeqsUpTo(_, _)
SeqsUpTo(S, n) ==
    IF n = 0 THEN { <<>> }
    ELSE LET shorter == SeqsUpTo(S, n - 1)
         IN  shorter \cup { Append(s, e) : s \in { t \in shorter : Len(t) = n - 1 }, e \in S }

\* ---------------------------------------------------------- collaborators
RetrieverError == [tag |-> "Exception", name |-> "RetrieverError"]
LLMError       == [tag |-> "Exception", name |-> "LLMError"]

\* an invocation either returns a value or raises an exception
Returns(v) == [exc |-> None, val |-> <<v>>]
Raises(e)  == [exc |-> e, val |-> <<>>]

\* what retriever.invoke(request) may do: return a response, or raise
RetrieverOutcomes ==
    { Returns(RetrievalResponse(<<>>)), Returns(RetrievalResponse(<<Doc1>>)),
      Raises(RetrieverError) }

\* what llm_program.invoke(log) may do: return 0..n events, or raise
LLMOutcomes ==
    { Returns(<<>>),
      Returns(<<AIMessage("a")>>),
      Returns(<<AIMessage("a"), RetrievalResponse(<<>>)>>),
      Returns(<<AIMessage("a"), HumanMessage("q")>>),
      Raises(LLMError) }

Front(s) == SubSeq(s, 1, Len(s) - 1)
Tail1(s) == SubSeq(s, 2, Len(s))

\* the memory managers a caller may construct the agent with: one that
\* returns the log it is given, one that drops the oldest event (truncation),
\* one that drops the trailing event, one that replaces the trailing event
\* by a summary; NoMemoryManager is the constructor's default, None
NoMemoryManager == "None"
MemoryManagers == {"passthrough", "drop_oldest", "drop_last", "summarize"}

\* memory_manager.process(log)
process(mm, log) ==
    IF log = <<>> THEN log
    ELSE CASE mm = "passthrough" -> log
           [] mm = "drop_oldest" -> Tail1(log)
           [] mm = "drop_last"   -> Front(log)
           [] mm = "summarize"   -> Append(Front(log), SystemMessage("summary"))

AttributeError == [tag |-> "Exception", name |-> "AttributeError"]

\* the list object memory_manager.process returns: the pass-through manager
\* hands back the list it was given, the others build a new list
ProcessedRef(mm, ref) == IF mm = "passthrough" THEN ref ELSE "processed"

\* ------------------------------------------------------------------- step
\* bool(x) of a message-like event: BaseMessage and the internal messages
\* are plain model objects, truthy whatever their content; None is falsy
Truthy(m) == m # None

Last(s) == s[Len(s)]

\* a step's effect: the list it returns (ret), the exception it lets through
\* (raised), and the collaborator calls it made (retriever, llm)

\* return r, invoking nothing
quiet(r) == [ret |-> r, raised |-> None, retriever |-> <<>>, llm |-> <<>>]

\* return [self.retriever.invoke(request, config=config)]
retrieve(request, retrieverOutcome) ==
    [ret |-> IF retrieverOutcome.exc # None THEN <<>> ELSE <<retrieverOutcome.val[1]>>,
     raised |-> retrieverOutcome.exc,
     retriever |-> <<[arg |-> request, out |-> retrieverOutcome]>>,
     llm |-> <<>>]

\* return self.llm_program.invoke(msgs, config=config)
generate(msgs, llmOutcome) ==
    [ret |-> IF llmOutcome.exc # None THEN <<>> ELSE llmOutcome.val[1],
     raised |-> llmOutcome.exc,
     retriever |-> <<>>,
     llm |-> <<[arg |-> msgs, out |-> llmOutcome]>>]

\* mutant: no case for AIMessage, it falls to the default branch
step_noAICase(msgs, retrieverOutcome, llmOutcome) ==
    LET last_message == IF msgs # <<>> THEN Last(msgs) ELSE None
    IN  IF ~Truthy(last_message) THEN quiet(<<>>)
        ELSE CASE last_message.tag = "AgentFinish" -> quiet(<<>>)
               [] last_message.tag = "HumanMessage" ->
                    quiet(<<RetrievalRequest(last_message.content)>>)
               [] last_message.tag = "RetrievalRequest" ->
                    retrieve(last_message, retrieverOutcome)
               [] OTHER -> generate(msgs, llmOutcome)

\* mutant: a human message is answered by retrieving at once
step_humanRetrieves(msgs, retrieverOutcome, llmOutcome) ==
    LET last_message == IF msgs # <<>> THEN Last(msgs) ELSE None
    IN  IF ~Truthy(last_message) THEN quiet(<<>>)
        ELSE CASE last_message.tag = "AIMessage" -> quiet(<<>>)
               [] last_message.tag = "AgentFinish" -> quiet(<<>>)
               [] last_message.tag = "HumanMessage" ->
                    retrieve(RetrievalRequest(last_message.content), retrieverOutcome)
               [] last_message.tag = "RetrievalRequest" ->
                    retrieve(last_message, retrieverOutcome)
               [] OTHER -> generate(msgs, llmOutcome)

\* mutant: no case for RetrievalRequest, it falls to the default branch
step_noRetrievalCase(msgs, retrieverOutcome, llmOutcome) ==
    LET last_message == IF msgs # <<>> THEN Last(msgs) ELSE None
    IN  IF ~Truthy(last_message) THEN quiet(<<>>)
        ELSE CASE last_message.tag = "AIMessage" -> quiet(<<>>)
               [] last_message.tag = "AgentFinish" -> quiet(<<>>)
               [] last_message.tag = "HumanMessage" ->
                    quiet(<<RetrievalRequest(last_message.content)>>)
               [] OTHER -> generate(msgs, llmOutcome)

\* mutant: the LLM program is given the last event only
step_llmOnLast(msgs, retrieverOutcome, llmOutcome) ==
    LET last_message == IF msgs # <<>> THEN Last(msgs) ELSE None
    IN  IF ~Truthy(last_message) THEN quiet(<<>>)
        ELSE CASE last_message.tag = "AIMessage" -> quiet(<<>>)
               [] last_message.tag = "AgentFinish" -> quiet(<<>>)
               [] last_message.tag = "HumanMessage" ->
                    quiet(<<RetrievalRequest(last_message.content)>>)
               [] last_message.tag = "RetrievalRequest" ->
                    retrieve(last_message, retrieverOutcome)
               [] OTHER -> generate(<<last_message>>, llmOutcome)

\* mutant: a retrieval request is answered by retrieving and generating at once
step_retrieveThenGenerate(msgs, retrieverOutcome, llmOutcome) ==
    LET last_message == IF msgs # <<>> THEN Last(msgs) ELSE None
    IN  IF ~Truthy(last_message) THEN quiet(<<>>)
        ELSE CASE last_message.tag = "AIMessage" -> quiet(<<>>)
               [] last_message.tag = "AgentFinish" -> quiet(<<>>)
               [] last_message.tag = "HumanMessage" ->
                    quiet(<<RetrievalRequest(last_message.content)>>)
               [] last_message.tag = "RetrievalRequest" ->
                    LET r == retrieve(last_message, retrieverOutcome)
                        g == generate(msgs \o r.ret, llmOutcome)
                    IN  IF r.raised # None THEN r
                        ELSE [ret |-> r.ret \o g.ret, raised |-> g.raised,
                              retriever |-> r.retriever, llm |-> g.llm]
               [] OTHER -> generate(msgs, llmOutcome)

\* mutant: a human message goes straight to the LLM program
step_humanGenerates(msgs, retrieverOutcome, llmOutcome) ==
    LET last_message == IF msgs # <<>> THEN Last(msgs) ELSE None
    IN  IF ~Truthy(last_message) THEN quiet(<<>>)
        ELSE CASE last_message.tag = "AIMessage" -> quiet(<<>>)
               [] last_message.tag = "AgentFinish" -> quiet(<<>>)
               [] last_message.tag = "RetrievalRequest" ->
                    retrieve(last_message, retrieverOutcome)
               [] OTHER -> generate(msgs, llmOutcome)

\* RagAgent.step(messages), given what the collaborators do if invoked
step(msgs, retrieverOutcome, llmOutcome) ==
    LET last_message == IF msgs # <<>> THEN Last(msgs) ELSE None
    IN  IF ~Truthy(last_message) THEN quiet(<<>>)
        ELSE CASE last_message.tag = "AIMessage" -> quiet(<<>>)
               [] last_message.tag = "AgentFinish" -> quiet(<<>>)
               [] last_message.tag = "HumanMessage" ->
                    quiet(<<RetrievalRequest(last_message.content)>>)
               [] last_message.tag = "RetrievalRequest" ->
                    retrieve(last_message, retrieverOutcome)
               [] OTHER -> generate(msgs, llmOutcome)

\* -------------------------------------------------------------------- run
VARIABLES
    memory_manager,  \* self.memory_manager, set by the constructor
    messages,        \* the caller's initial messages
    max_iterations,  \* the caller's iteration cap
    pc,              \* where the generator body of run stands
    demand,          \* the caller is inside next() on the generator
    all_messages,    \* run's local log
    new_messages,    \* the list the last step returned
    i,               \* iterations of the for loop started so far
    idx,             \* next element of new_messages to yield (1-based)
    produced,        \* events delivered to the caller, in order
    error,           \* exception delivered to the caller, or None
    processCalls,    \* memory_manager.process calls: [arg, out]
    stepCalls,       \* step calls: [arg, ret, raised, retriever, llm]
    requests,        \* next() calls the caller has made on the generator
    log_ref,         \* the list object all_messages is bound to
    caller_list,     \* contents of the list object the caller passed in
    agent,           \* the agent two concurrent runs share: [llm_program]
    runs,            \* the generator frames of the concurrent runs, by run id
    pg               \* a prompt_generator call: [input, pc, output]

vars == << memory_manager, messages, max_iterations, pc, demand, all_messages, new_messages,
           i, idx, produced, error, processCalls, stepCalls,
           requests, log_ref, caller_list, agent, runs, pg >>

\* no prompt_generator call is under way
NoPromptCall == pg = [input |-> <<>>, pc |-> "returned", output |-> <<>>]

\* no concurrent runs are under way
NoRuns ==
    /\ agent = [llm_program |-> "answer"]
    /\ runs = <<>>

Init ==
    /\ NoRuns
    /\ NoPromptCall
    /\ memory_manager \in MemoryManagers \cup {NoMemoryManager}
    /\ messages \in SeqsUpTo(InitEvents, MaxInit)
    /\ max_iterations \in 0..MaxIter
    /\ pc = "start"
    /\ demand = FALSE
    /\ all_messages = <<>>
    /\ new_messages = <<>>
    /\ i = 0
    /\ idx = 1
    /\ produced = <<>>
    /\ error = None
    /\ processCalls = <<>>
    /\ stepCalls = <<>>
    /\ requests = 0
    /\ log_ref = "unbound"
    /\ caller_list = messages

Terminated == pc \in {"done", "raised"}

\* the caller asks the generator for its next event
CallNext ==
    /\ ~demand
    /\ ~Terminated
    /\ demand' = TRUE
    /\ requests' = requests + 1
    /\ UNCHANGED << pg, agent, runs, log_ref, caller_list, memory_manager, messages, max_iterations, pc, all_messages, new_messages,
                    i, idx, produced, error, processCalls, stepCalls >>

\* mutant: the log is the caller's list itself, not a copy of it
Start_noCopy ==
    /\ demand
    /\ pc = "start"
    /\ all_messages' = messages
    /\ log_ref' = "caller"
    /\ pc' = "for"
    /\ UNCHANGED << pg, agent, runs, requests, caller_list, memory_manager, messages,
                    max_iterations, demand, new_messages, i, idx, produced, error,
                    processCalls, stepCalls >>

\* all_messages = list(messages)
Start ==
    /\ demand
    /\ pc = "start"
    /\ all_messages' = messages
    /\ log_ref' = "copy"
    /\ pc' = "for"
    /\ UNCHANGED << pg, agent, runs, requests, caller_list, memory_manager, messages, max_iterations, demand, new_messages, i, idx,
                    produced, error, processCalls, stepCalls >>

\* mutant: the loop runs one round too many
ForLoop_offByOne ==
    /\ demand
    /\ pc = "for"
    /\ IF i < max_iterations + 1
       THEN /\ i' = i + 1
            /\ pc' = "process"
            /\ demand' = demand
       ELSE /\ i' = i
            /\ pc' = "done"
            /\ demand' = FALSE
    /\ UNCHANGED << pg, agent, runs, requests, log_ref, caller_list, memory_manager, messages, max_iterations, all_messages,
                    new_messages, idx, produced, error, processCalls, stepCalls >>

\* mutant: when the cap is reached the run emits a final event saying so
ForLoop_signalsExhaustion ==
    /\ demand
    /\ pc = "for"
    /\ IF i < max_iterations
       THEN /\ i' = i + 1
            /\ pc' = "process"
            /\ UNCHANGED << demand, produced >>
       ELSE /\ i' = i
            /\ pc' = "done"
            /\ demand' = FALSE
            /\ produced' = Append(produced, AgentFinish("max_iterations"))
    /\ UNCHANGED << pg, agent, runs, requests, log_ref, caller_list, memory_manager, messages, max_iterations, all_messages,
                    new_messages, idx, error, processCalls, stepCalls >>

\* for _ in range(max_iterations)
ForLoop ==
    /\ demand
    /\ pc = "for"
    /\ IF i < max_iterations
       THEN /\ i' = i + 1
            /\ pc' = "process"
            /\ demand' = demand
       ELSE /\ i' = i
            /\ pc' = "done"
            /\ demand' = FALSE
    /\ UNCHANGED << pg, agent, runs, requests, log_ref, caller_list, memory_manager, messages, max_iterations, all_messages, new_messages, idx,
                    produced, error, processCalls, stepCalls >>

\* mutant: process is called but its result is thrown away
Process_discardsResult ==
    /\ demand
    /\ pc = "process"
    /\ IF memory_manager = NoMemoryManager
       THEN /\ error' = AttributeError
            /\ pc' = "raised"
            /\ demand' = FALSE
            /\ UNCHANGED << all_messages, processCalls, log_ref >>
       ELSE LET out == process(memory_manager, all_messages)
            IN  /\ processCalls' = Append(processCalls, [arg |-> all_messages, out |-> out])
                /\ all_messages' = all_messages
                /\ log_ref' = log_ref
                /\ pc' = "step"
                /\ UNCHANGED << error, demand >>
    /\ UNCHANGED << pg, agent, runs, requests, caller_list, memory_manager, messages, max_iterations, new_messages, i, idx,
                    produced, stepCalls >>

\* mutant: a missing memory manager is treated as one that returns its input
Process_defaultsToPassthrough ==
    /\ demand
    /\ pc = "process"
    /\ LET mm == IF memory_manager = NoMemoryManager THEN "passthrough" ELSE memory_manager
           out == process(mm, all_messages)
       IN  /\ processCalls' = Append(processCalls, [arg |-> all_messages, out |-> out])
           /\ all_messages' = out
           /\ log_ref' = ProcessedRef(mm, log_ref)
    /\ pc' = "step"
    /\ UNCHANGED << pg, agent, runs, requests, caller_list, memory_manager, messages, max_iterations,
                    demand, error, new_messages, i, idx, produced, stepCalls >>

\* all_messages = self.memory_manager.process(all_messages)
Process ==
    /\ demand
    /\ pc = "process"
    /\ IF memory_manager = NoMemoryManager
       THEN /\ error' = AttributeError
            /\ pc' = "raised"
            /\ demand' = FALSE
            /\ UNCHANGED << all_messages, processCalls, log_ref >>
       ELSE LET out == process(memory_manager, all_messages)
            IN  /\ processCalls' = Append(processCalls, [arg |-> all_messages, out |-> out])
                /\ all_messages' = out
                /\ log_ref' = ProcessedRef(memory_manager, log_ref)
                /\ pc' = "step"
                /\ UNCHANGED << error, demand >>
    /\ UNCHANGED << pg, agent, runs, requests, caller_list, memory_manager, messages, max_iterations, new_messages, i, idx,
                    produced, stepCalls >>

\* mutant: a collaborator's exception is caught and the round counts as empty
Step_swallowsError ==
    /\ demand
    /\ pc = "step"
    /\ \E r \in RetrieverOutcomes, l \in LLMOutcomes :
         LET s == step(all_messages, r, l)
         IN  /\ stepCalls' = Append(stepCalls,
                   [arg |-> all_messages, ret |-> s.ret, raised |-> s.raised,
                    retriever |-> s.retriever, llm |-> s.llm])
             /\ new_messages' = s.ret
    /\ pc' = "test"
    /\ UNCHANGED << pg, agent, runs, requests, log_ref, caller_list, memory_manager, messages, max_iterations, demand, all_messages,
                    i, idx, produced, error, processCalls >>

\* new_messages = self.step(all_messages, config=config)
Step ==
    /\ demand
    /\ pc = "step"
    /\ \E r \in RetrieverOutcomes, l \in LLMOutcomes :
         LET s == step(all_messages, r, l)
         IN  /\ stepCalls' = Append(stepCalls,
                   [arg |-> all_messages, ret |-> s.ret, raised |-> s.raised,
                    retriever |-> s.retriever, llm |-> s.llm])
             /\ IF s.raised # None
                THEN /\ error' = s.raised
                     /\ pc' = "raised"
                     /\ demand' = FALSE
                     /\ new_messages' = new_messages
                ELSE /\ error' = error
                     /\ pc' = "test"
                     /\ demand' = demand
                     /\ new_messages' = s.ret
    /\ UNCHANGED << pg, agent, runs, requests, log_ref, caller_list, memory_manager, messages, max_iterations, all_messages, i, idx, produced,
                    processCalls >>

\* mutant: an empty step skips the round instead of ending the run
Test_continues ==
    /\ demand
    /\ pc = "test"
    /\ IF new_messages = <<>>
       THEN /\ pc' = "for"
            /\ idx' = idx
       ELSE /\ pc' = "yield"
            /\ idx' = 1
    /\ UNCHANGED << pg, agent, runs, requests, log_ref, caller_list, memory_manager, messages, max_iterations, demand, all_messages,
                    new_messages, i, produced, error, processCalls, stepCalls >>

\* if not new_messages: break
Test ==
    /\ demand
    /\ pc = "test"
    /\ IF new_messages = <<>>
       THEN /\ pc' = "done"
            /\ demand' = FALSE
            /\ idx' = idx
       ELSE /\ pc' = "yield"
            /\ demand' = demand
            /\ idx' = 1
    /\ UNCHANGED << pg, agent, runs, requests, log_ref, caller_list, memory_manager, messages, max_iterations, all_messages, new_messages, i,
                    produced, error, processCalls, stepCalls >>

\* mutant: only the first element of new_messages is yielded
Yield_firstOnly ==
    /\ demand
    /\ pc = "yield"
    /\ idx <= Len(new_messages)
    /\ produced' = Append(produced, new_messages[idx])
    /\ idx' = idx + 1
    /\ demand' = FALSE
    /\ pc' = "extend"
    /\ UNCHANGED << pg, agent, runs, requests, log_ref, caller_list, memory_manager, messages, max_iterations, all_messages,
                    new_messages, i, error, processCalls, stepCalls >>

\* mutant: the events are collected without suspending at each one
Yield_eager ==
    /\ demand
    /\ pc = "yield"
    /\ idx <= Len(new_messages)
    /\ produced' = Append(produced, new_messages[idx])
    /\ idx' = idx + 1
    /\ pc' = IF idx + 1 > Len(new_messages) THEN "extend" ELSE "yield"
    /\ UNCHANGED << pg, agent, runs, requests, log_ref, caller_list, memory_manager, messages,
                    max_iterations, demand, all_messages, new_messages, i, error,
                    processCalls, stepCalls >>

\* yield from new_messages: hand one element to the caller
Yield ==
    /\ demand
    /\ pc = "yield"
    /\ idx <= Len(new_messages)
    /\ produced' = Append(produced, new_messages[idx])
    /\ idx' = idx + 1
    /\ demand' = FALSE
    /\ pc' = IF idx + 1 > Len(new_messages) THEN "extend" ELSE "yield"
    /\ UNCHANGED << pg, agent, runs, requests, log_ref, caller_list, memory_manager, messages, max_iterations, all_messages, new_messages, i,
                    error, processCalls, stepCalls >>

\* mutant: the log is replaced by the new events instead of extended
Extend_replaces ==
    /\ demand
    /\ pc = "extend"
    /\ all_messages' = new_messages
    /\ caller_list' = IF log_ref = "caller" THEN new_messages ELSE caller_list
    /\ pc' = "for"
    /\ UNCHANGED << pg, agent, runs, requests, log_ref, memory_manager, messages,
                    max_iterations, demand, new_messages, i, idx, produced, error,
                    processCalls, stepCalls >>

\* all_messages.extend(new_messages)
Extend ==
    /\ demand
    /\ pc = "extend"
    /\ all_messages' = all_messages \o new_messages
    /\ caller_list' = IF log_ref = "caller" THEN caller_list \o new_messages
                      ELSE caller_list
    /\ pc' = "for"
    /\ UNCHANGED << pg, agent, runs, requests, log_ref, memory_manager, messages, max_iterations, demand, new_messages, i, idx,
                    produced, error, processCalls, stepCalls >>

Next ==
    \/ CallNext
    \/ Start
    \/ ForLoop
    \/ Process
    \/ Step
    \/ Test
    \/ Yield
    \/ Extend

Spec == Init /\ [][Next]_vars

\* the caller keeps consuming and the generator body keeps running
FairSpec == Spec /\ WF_vars(Next)

TypeOK ==
    /\ pc \in {"start", "for", "process", "step", "test", "yield", "extend", "done", "raised"}
    /\ demand \in BOOLEAN
    /\ i \in 0..max_iterations
    /\ pc = "yield" => idx \in 1..Len(new_messages)

\* ------------------------------------------------------------ step claims
StepTags == {"AIMessage", "AgentFinish", "HumanMessage", "RetrievalRequest"}

\* C1: a step on a log that is empty or ends in an AI message or an
\* AgentFinish returns the empty list and invokes neither the retriever nor
\* the LLM program
C1_TerminalStepIsEmpty ==
    \A k \in DOMAIN stepCalls :
        LET c == stepCalls[k]
        IN  (c.arg = <<>> \/ Last(c.arg).tag \in {"AIMessage", "AgentFinish"})
            => /\ c.ret = <<>>
               /\ c.raised = None
               /\ c.retriever = <<>>
               /\ c.llm = <<>>

C1_Witness ==
    \E k \in DOMAIN stepCalls :
        /\ Len(stepCalls[k].arg) >= 2
        /\ Last(stepCalls[k].arg).tag = "AIMessage"
        /\ stepCalls[k].ret = <<>>

\* C2: a step on a log ending in a human message with content C returns
\* exactly one RetrievalRequest with query C, whatever precedes it, and
\* invokes neither the retriever nor the LLM program
C2_HumanStepRequestsRetrieval ==
    \A k \in DOMAIN stepCalls :
        LET c == stepCalls[k]
        IN  (c.arg # <<>> /\ Last(c.arg).tag = "HumanMessage")
            => /\ c.ret = <<RetrievalRequest(Last(c.arg).content)>>
               /\ c.raised = None
               /\ c.retriever = <<>>
               /\ c.llm = <<>>

C2_Witness ==
    \E k \in DOMAIN stepCalls :
        /\ Len(stepCalls[k].arg) >= 2
        /\ Last(stepCalls[k].arg) = HumanMessage("")
        /\ stepCalls[k].ret = <<RetrievalRequest("")>>

\* C3: a step on a log ending in a RetrievalRequest R invokes the retriever
\* exactly once, with R, returns exactly the one response the retriever
\* returned, and does not invoke the LLM program
C3_RequestStepRetrieves ==
    \A k \in DOMAIN stepCalls :
        LET c == stepCalls[k]
        IN  (c.arg # <<>> /\ Last(c.arg).tag = "RetrievalRequest")
            => /\ Len(c.retriever) = 1
               /\ c.retriever[1].arg = Last(c.arg)
               /\ c.llm = <<>>
               /\ c.retriever[1].out.exc = None
                    => /\ c.raised = None
                       /\ c.ret = <<c.retriever[1].out.val[1]>>

C3_Witness ==
    \E k \in DOMAIN stepCalls :
        /\ Len(stepCalls[k].arg) >= 2
        /\ Last(stepCalls[k].arg) = RetrievalRequest("q")
        /\ stepCalls[k].ret = <<RetrievalResponse(<<Doc1>>)>>

\* C4: a step on a non-empty log ending in any other event invokes the LLM
\* program exactly once, on the whole log, returns its output unchanged
\* (0, 1 or more events), and does not invoke the retriever
C4_DefaultStepGenerates ==
    \A k \in DOMAIN stepCalls :
        LET c == stepCalls[k]
        IN  (c.arg # <<>> /\ Last(c.arg).tag \notin StepTags)
            => /\ Len(c.llm) = 1
               /\ c.llm[1].arg = c.arg
               /\ c.retriever = <<>>
               /\ c.llm[1].out.exc = None
                    => /\ c.raised = None
                       /\ c.ret = c.llm[1].out.val[1]

C4_Witness ==
    \E k \in DOMAIN stepCalls :
        /\ Len(stepCalls[k].arg) >= 2
        /\ Last(stepCalls[k].arg).tag = "RetrievalResponse"
        /\ Len(stepCalls[k].ret) = 2
\* ------------------------------------------------------------- run claims
RECURSIVE Flatten(_)
Flatten(ss) == IF ss = <<>> THEN <<>> ELSE Head(ss) \o Flatten(Tail(ss))

IsPrefix(a, b) == Len(a) <= Len(b) /\ a = SubSeq(b, 1, Len(a))

\* the lists returned by the first n step calls, in round order
StepRets(n) == [k \in 1..n |-> stepCalls[k].ret]

NonEmptySteps == { k \in DOMAIN stepCalls : stepCalls[k].ret # <<>> }

\* C5: run terminates whatever the collaborators return: a caller that
\* keeps consuming reaches the end of the sequence, and never more than
\* max_iterations rounds are started
C5_RunTerminates ==
    /\ [](i <= max_iterations /\ Len(stepCalls) <= max_iterations)
    /\ <>Terminated

\* a run that ended at the cap with every step non-empty, the LLM program
\* having returned a list ending in a RetrievalResponse each time
C5_Witness ==
    /\ pc = "done"
    /\ max_iterations >= 2
    /\ Len(stepCalls) = max_iterations
    /\ \A k \in DOMAIN stepCalls :
         /\ Len(stepCalls[k].llm) = 1
         /\ stepCalls[k].ret # <<>>
         /\ Last(stepCalls[k].ret).tag = "RetrievalResponse"

\* C6: with max_iterations = N, process and step are called at most N
\* times, the events produced are those of at most N non-empty steps, and
\* a run that reaches the cap without an empty step just ends: no error,
\* no extra event
C6_CapIsSilent ==
    /\ Len(processCalls) <= max_iterations
    /\ Len(stepCalls) <= max_iterations
    /\ Cardinality(NonEmptySteps) <= max_iterations
    /\ IsPrefix(produced, Flatten(StepRets(Len(stepCalls))))
    /\ (pc = "done" /\ Cardinality(NonEmptySteps) = max_iterations)
         => /\ error = None
            /\ produced = Flatten(StepRets(max_iterations))

C6_Witness ==
    /\ pc = "done"
    /\ max_iterations >= 2
    /\ Cardinality(NonEmptySteps) = max_iterations
    /\ Len(processCalls) = max_iterations
    /\ Len(produced) > max_iterations

\* C7: run stops at the first empty step: the step that returned [] is the
\* last call of the run (no later process, retriever or LLM call), nothing
\* is produced after it even when rounds remain, and an empty first step
\* means zero events
C7_StopsAtFirstEmptyStep ==
    \A k \in DOMAIN stepCalls :
        (stepCalls[k].ret = <<>> /\ stepCalls[k].raised = None)
        => /\ k = Len(stepCalls)
           /\ Len(processCalls) = k
           /\ pc \in {"test", "done"}
           /\ produced = Flatten(StepRets(k - 1))
           /\ k = 1 => produced = <<>>

C7_Witness ==
    /\ pc = "done"
    /\ Len(stepCalls) >= 2
    /\ Len(stepCalls) < max_iterations
    /\ stepCalls[Len(stepCalls)].ret = <<>>
    /\ produced # <<>>

\* C8: in every round process is called once, before step; step receives
\* the processed log, not the raw one; the round's new events are appended
\* to the processed log, which is what the next round's process receives
C8_StepSeesProcessedLog ==
    /\ Len(processCalls) \in {Len(stepCalls), Len(stepCalls) + 1}
    /\ Len(processCalls) = Len(stepCalls) + 1 <=> pc = "step"
    /\ memory_manager # NoMemoryManager =>
          Len(processCalls) = IF pc = "process" THEN i - 1 ELSE i
    /\ \A k \in DOMAIN stepCalls : stepCalls[k].arg = processCalls[k].out
    /\ \A k \in DOMAIN processCalls :
          processCalls[k].arg =
             IF k = 1 THEN messages
             ELSE processCalls[k - 1].out \o stepCalls[k - 1].ret

\* a second round in which the memory manager changed the trailing event
\* and the step took the action of the processed log's last event
C8_Witness ==
    \E k \in DOMAIN stepCalls :
        /\ k >= 2
        /\ processCalls[k].out # <<>>
        /\ Last(processCalls[k].arg).tag = "RetrievalRequest"
        /\ Last(processCalls[k].out).tag = "HumanMessage"
        /\ Len(stepCalls[k].ret) = 1
        /\ stepCalls[k].ret[1].tag = "RetrievalRequest"
        /\ stepCalls[k].retriever = <<>>

\* C9: what a caller that consumes the whole sequence receives is the
\* concatenation, in round order, of the lists the steps returned; at any
\* moment what was delivered is a prefix of it
C9_ProducedIsConcatOfSteps ==
    /\ IsPrefix(produced, Flatten(StepRets(Len(stepCalls))))
    /\ pc \notin {"test", "yield"} => produced = Flatten(StepRets(Len(stepCalls)))
    /\ pc = "yield" =>
          produced = Flatten(StepRets(Len(stepCalls) - 1)) \o SubSeq(new_messages, 1, idx - 1)

C9_Witness ==
    /\ pc = "done"
    /\ messages # <<>>
    /\ Len(stepCalls) >= 3
    /\ Len(produced) >= 3
    /\ \E k \in DOMAIN stepCalls : Len(stepCalls[k].ret) = 2

\* C10: a failure of the retriever or the LLM program reaches the caller
\* unchanged; the failing collaborator was invoked once (no retry), the
\* failing step is the last call of the run, no event of the failing round
\* or after is produced, and the earlier rounds' events were all delivered
C10_CollaboratorFailurePropagates ==
    \A k \in DOMAIN stepCalls :
        LET c == stepCalls[k]
            calls == c.retriever \o c.llm
        IN  (\E n \in DOMAIN calls : calls[n].out.exc # None)
            => /\ Len(calls) = 1
               /\ c.raised = calls[1].out.exc
               /\ error = calls[1].out.exc
               /\ pc = "raised"
               /\ ~demand
               /\ k = Len(stepCalls)
               /\ Len(processCalls) = k
               /\ produced = Flatten(StepRets(k - 1))

C10_Witness ==
    /\ pc = "raised"
    /\ error = LLMError
    /\ Len(stepCalls) >= 3
    /\ Len(produced) >= 2
\* C11: the memory manager is mandatory: an agent constructed without one
\* fails in the first round of run (max_iterations >= 1), on the caller's
\* first request, before any process or step call and before any event,
\* whatever the initial log
C11_MemoryManagerIsMandatory ==
    memory_manager = NoMemoryManager
    => /\ processCalls = <<>>
       /\ stepCalls = <<>>
       /\ produced = <<>>
       /\ (max_iterations >= 1 /\ pc \notin {"start", "for", "process"})
            => /\ pc = "raised"
               /\ error = AttributeError
               /\ i = 1
               /\ requests = 1

C11_Witness ==
    /\ memory_manager = NoMemoryManager
    /\ messages = <<>>
    /\ pc = "raised"
    /\ error = AttributeError

\* C12: run is lazy: nothing is called before the caller's first request;
\* the calls of a round happen only once the caller has taken every event
\* of the rounds before and asked for one more; no event is delivered
\* without a request; while the caller is not asking, no collaborator is
\* called and nothing is produced, so a caller that stops consuming stops
\* the run
C12_RunIsLazy ==
    /\ [](requests = 0 => processCalls = <<>> /\ stepCalls = <<>> /\ produced = <<>>)
    /\ [](Len(produced) <= requests)
    /\ [](processCalls # <<>>
            => requests >= Len(Flatten(StepRets(Len(processCalls) - 1))) + 1)
    /\ [][~demand => UNCHANGED << processCalls, stepCalls, produced, all_messages >>]_vars

\* the generator suspended after a round's last event, with rounds left:
\* the next round waits for the caller
C12_Witness ==
    /\ ~demand
    /\ pc = "extend"
    /\ i < max_iterations
    /\ Len(stepCalls) >= 2
    /\ requests = Len(produced)
    /\ Len(processCalls) = Len(stepCalls)

\* ------------------------------------------ two runs on the same agent
RunIds == {1, 2}

\* events of the initial logs of the concurrent runs
ConcEvents == { HumanMessage("q"), SystemMessage("s") }

\* LLM programs that are pure functions of the log they are given
LLMPrograms == {"answer", "followup", "context"}

llm_program(program, log) ==
    CASE program = "answer" -> <<AIMessage("a")>>
      [] program = "followup" ->
            IF \E k \in DOMAIN log : log[k].tag = "AIMessage"
            THEN <<AIMessage("a")>>
            ELSE <<AIMessage("a"), HumanMessage("q")>>
      [] program = "context" ->
            IF Len(log) < 4 THEN <<AIMessage("a"), RetrievalResponse(<<>>)>>
            ELSE <<>>

\* a retriever that is a pure function of the request
retriever(request) ==
    RetrievalResponse(IF request.query = "q" THEN <<Doc1>> ELSE <<>>)

\* the single stand-alone run is idle while the concurrent runs are studied
NoRun ==
    /\ memory_manager = "passthrough"
    /\ messages = <<>>
    /\ max_iterations = 0
    /\ pc = "done"
    /\ demand = FALSE
    /\ all_messages = <<>>
    /\ new_messages = <<>>
    /\ i = 0
    /\ idx = 1
    /\ produced = <<>>
    /\ error = None
    /\ processCalls = <<>>
    /\ stepCalls = <<>>
    /\ requests = 0
    /\ log_ref = "unbound"
    /\ caller_list = <<>>

runVars == << memory_manager, messages, max_iterations, pc, demand, all_messages,
             new_messages, i, idx, produced, error, processCalls, stepCalls,
             requests, log_ref, caller_list >>

\* the frame of a run(messages, max_iterations=n) call before its first next()
Frame(m, n) ==
    [messages |-> m, max_iterations |-> n, pc |-> "start", all_messages |-> <<>>,
     new_messages |-> <<>>, i |-> 0, idx |-> 1, produced |-> <<>>, stepLogs |-> <<>>]

\* lines 139-144 from the loop head to the next suspension: one round with
\* a pass-through memory manager, up to its first yield, or the end
Round(st, program) ==
    IF st.i >= st.max_iterations THEN [st EXCEPT !.pc = "done"]
    ELSE LET log == process("passthrough", st.all_messages)
             r == IF log # <<>> /\ Last(log).tag = "RetrievalRequest"
                  THEN Returns(retriever(Last(log)))
                  ELSE Returns(RetrievalResponse(<<>>))
             s == step(log, r, Returns(llm_program(program, log)))
             called == [st EXCEPT !.i = @ + 1, !.all_messages = log,
                                  !.stepLogs = Append(@, log)]
         IN  IF s.ret = <<>> THEN [called EXCEPT !.pc = "done"]
             ELSE [called EXCEPT !.new_messages = s.ret,
                                 !.idx = 2,
                                 !.produced = Append(@, s.ret[1]),
                                 !.pc = IF Len(s.ret) = 1 THEN "extend" ELSE "yield"]

\* one next() on a run's generator: from its suspension point to the next
resume(st, program) ==
    CASE st.pc = "start" -> Round([st EXCEPT !.all_messages = st.messages], program)
      [] st.pc = "yield" ->
            [st EXCEPT !.produced = Append(@, st.new_messages[st.idx]),
                       !.idx = @ + 1,
                       !.pc = IF st.idx + 1 > Len(st.new_messages) THEN "extend" ELSE "yield"]
      [] st.pc = "extend" ->
            Round([st EXCEPT !.all_messages = @ \o st.new_messages], program)
      [] OTHER -> st

\* mutant: the log is kept in a field of the agent, which the runs share
StoreFrame_logOnAgent(rs, r, st) ==
    [q \in DOMAIN rs |->
        IF q = r THEN st ELSE [rs[q] EXCEPT !.all_messages = st.all_messages]]

\* all_messages is a local of the generator: resuming run r changes r's frame only
StoreFrame(rs, r, st) == [rs EXCEPT ![r] = st]

ConcInit ==
    /\ NoRun
    /\ NoPromptCall
    /\ agent \in [llm_program : LLMPrograms]
    /\ runs \in [RunIds -> { Frame(m, n) : m \in SeqsUpTo(ConcEvents, MaxInit),
                                            n \in 0..MaxIter }]

\* first next() on run r
ResumeStart(r) ==
    /\ runs[r].pc = "start"
    /\ runs' = StoreFrame(runs, r, resume(runs[r], agent.llm_program))
    /\ UNCHANGED << pg, agent, runVars >>

\* next() on run r suspended inside yield from
ResumeYield(r) ==
    /\ runs[r].pc = "yield"
    /\ runs' = StoreFrame(runs, r, resume(runs[r], agent.llm_program))
    /\ UNCHANGED << pg, agent, runVars >>

\* next() on run r suspended at the last event of a round
ResumeExtend(r) ==
    /\ runs[r].pc = "extend"
    /\ runs' = StoreFrame(runs, r, resume(runs[r], agent.llm_program))
    /\ UNCHANGED << pg, agent, runVars >>

ConcNext ==
    \E r \in RunIds :
        \/ ResumeStart(r)
        \/ ResumeYield(r)
        \/ ResumeExtend(r)

ConcSpec == ConcInit /\ [][ConcNext]_vars

\* what run(m, max_iterations=n) produces when it runs alone
RECURSIVE Alone(_, _)
Alone(st, program) ==
    IF st.pc = "done" THEN st.produced ELSE Alone(resume(st, program), program)

MaxResults == 2     \* most results in a RetrievalResponse
MaxPrompt  == 2     \* longest input of prompt_generator

\* the value a document's metadata holds for a field, where it has the field
FieldValue(field) ==
    CASE field = "title" -> "Ttl"
      [] field = "description" -> "Dsc"
      [] field = "source" -> "Src"
      [] field = "author" -> "Ath"

Document(text, fields) ==
    [page_content |-> text, metadata |-> [f \in fields |-> FieldValue(f)]]

Documents ==
    { Document("Alpha", {"title"}),
      Document("Beta", {"source", "description", "title"}),
      Document("Beta", {"author", "source"}) }

PromptEvents ==
    { RetrievalResponse(r) : r \in SeqsUpTo(Documents, MaxResults) }
    \cup { AIMessage("a"), RetrievalRequest("q"), AgentFinish("done") }

\* mutant: each metadata value is written with its field name
RECURSIVE render_fields_labelled(_, _)
render_fields_labelled(fields, doc) ==
    IF fields = <<>> THEN ""
    ELSE (IF Head(fields) \in DOMAIN doc.metadata
          THEN Head(fields) \o ": " \o doc.metadata[Head(fields)] \o "\n"
          ELSE "")
         \o render_fields_labelled(Tail(fields), doc)

\* for field in ["title", "description", "source"]: if field in doc.metadata: ...
RECURSIVE render_fields(_, _)
render_fields(fields, doc) ==
    IF fields = <<>> THEN ""
    ELSE (IF Head(fields) \in DOMAIN doc.metadata
          THEN doc.metadata[Head(fields)] \o "\n"
          ELSE "")
         \o render_fields(Tail(fields), doc)

\* the block of one result, its index n counted from 0
render_doc(n, doc) ==
    "--- Result " \o ToString(n) \o " ---\n"
    \o "Text:\n"
    \o doc.page_content
    \o render_fields(<<"title", "description", "source">>, doc)
    \o "--- End Result " \o ToString(n) \o " ---\n"

\* for idx, doc in enumerate(results): the blocks from position k on
RECURSIVE render_results(_, _)
render_results(results, k) ==
    IF k > Len(results) THEN ""
    ELSE render_doc(k - 1, results[k]) \o render_results(results, k + 1)

\* mutant: the results are tested against None, not for emptiness
prompt_resultsNotNone(message) ==
    IF message.results # None THEN render_results(message.results, 1)
    ELSE "Found no results for the query."

\* the text built for a RetrievalResponse
prompt(message) ==
    IF message.results # <<>> THEN render_results(message.results, 1)
    ELSE "Found no results for the query."

\* mutant: chat messages are put at the front of the list
RECURSIVE prompt_loop_prepends(_, _)
prompt_loop_prepends(rest, out) ==
    IF rest = <<>> THEN out
    ELSE LET message == Head(rest)
         IN  prompt_loop_prepends(Tail(rest),
                IF IsBaseMessage(message) THEN <<message>> \o out
                ELSE IF message.tag = "RetrievalResponse"
                     THEN Append(out,
                            HumanMessage("Context: <result>\n" \o prompt(message) \o "\n</result>"))
                     ELSE out)

\* the loop over input_messages, out being the list built so far
RECURSIVE prompt_loop(_, _)
prompt_loop(rest, out) ==
    IF rest = <<>> THEN out
    ELSE LET message == Head(rest)
         IN  prompt_loop(Tail(rest),
                IF IsBaseMessage(message) THEN Append(out, message)
                ELSE IF message.tag = "RetrievalResponse"
                     THEN Append(out,
                            HumanMessage("Context: <result>\n" \o prompt(message) \o "\n</result>"))
                     ELSE out)

prompt_generator(input_messages) == prompt_loop(input_messages, <<>>)

PromptInit ==
    /\ NoRun
    /\ NoRuns
    /\ pg \in [input : SeqsUpTo(PromptEvents, MaxPrompt), pc : {"call"}, output : {<<>>}]

\* messages = prompt_generator(input_messages)
Generate ==
    /\ pg.pc = "call"
    /\ pg' = [pg EXCEPT !.output = prompt_generator(pg.input), !.pc = "returned"]
    /\ UNCHANGED << agent, runs, runVars >>

PromptNext == Generate

PromptSpec == PromptInit /\ [][PromptNext]_vars

\* ------------------------------------------------- prompt_generator claims
IsKept(m) == IsBaseMessage(m) \/ m.tag = "RetrievalResponse"
IsChat(m) == IsBaseMessage(m)
IsResponse(m) == m.tag = "RetrievalResponse"

\* the input events that have a message in the output, in input order
Kept == SelectSeq(pg.input, IsKept)

\* C14: prompt_generator is an order-preserving filter-map: one output
\* message per chat message (unchanged) or RetrievalResponse (one human
\* message), in input order; every other event contributes nothing
C14_PromptIsFilterMap ==
    pg.pc = "returned"
    => /\ Len(pg.output) = Len(SelectSeq(pg.input, IsChat)) + Len(SelectSeq(pg.input, IsResponse))
       /\ Len(pg.output) = Len(Kept)
       /\ \A j \in DOMAIN Kept :
             IF IsBaseMessage(Kept[j]) THEN pg.output[j] = Kept[j]
             ELSE pg.output[j].tag = "HumanMessage"

C14_Witness ==
    /\ pg.pc = "returned"
    /\ Len(pg.input) = 2
    /\ pg.input[1].tag = "RetrievalResponse"
    /\ pg.input[2] = AIMessage("a")
    /\ Len(pg.output) = 2
    /\ pg.output[2] = AIMessage("a")

NoResultsContent == "Context: <result>\nFound no results for the query.\n</result>"

\* C15: a RetrievalResponse with zero results is rendered as one human
\* message whose content is exactly
\* "Context: <result>\nFound no results for the query.\n</result>"
C15_NoResultsRendering ==
    pg.pc = "returned"
    => /\ Len(pg.output) = Len(Kept)
       /\ \A j \in DOMAIN Kept :
             (IsResponse(Kept[j]) /\ Kept[j].results = <<>>)
             => pg.output[j] = HumanMessage(NoResultsContent)

C15_Witness ==
    /\ pg.pc = "returned"
    /\ pg.input = <<AIMessage("a"), RetrievalResponse(<<>>)>>
    /\ Len(pg.output) = 2
    /\ pg.output[2].content = NoResultsContent

\* the first position >= from at which sub occurs in text, or 0
RECURSIVE Find(_, _, _)
Find(text, sub, from) ==
    IF from + Len(sub) - 1 > Len(text) THEN 0
    ELSE IF SubSeq(text, from, from + Len(sub) - 1) = sub THEN from
    ELSE Find(text, sub, from + 1)

\* the pieces occur in text one after the other, from position from on
RECURSIVE InOrder(_, _, _)
InOrder(text, pieces, from) ==
    IF pieces = <<>> THEN TRUE
    ELSE LET at == Find(text, Head(pieces), from)
         IN  at # 0 /\ InOrder(text, Tail(pieces), at + Len(Head(pieces)))

\* how many times sub occurs in text
Count(text, sub) ==
    Cardinality({ at \in 1..(Len(text) - Len(sub) + 1) :
                    SubSeq(text, at, at + Len(sub) - 1) = sub })

RenderedFields == <<"title", "description", "source">>
OtherFields == {"author"}

\* what the block of the result at index n has to show, in order
Pieces(n, doc) ==
    << "--- Result " \o ToString(n) \o " ---", doc.page_content >>
    \o [k \in 1..Len(SelectSeq(RenderedFields, LAMBDA f : f \in DOMAIN doc.metadata)) |->
           doc.metadata[SelectSeq(RenderedFields, LAMBDA f : f \in DOMAIN doc.metadata)[k]] \o "\n"]
    \o << "--- End Result " \o ToString(n) \o " ---" >>

\* C16: a RetrievalResponse with results is rendered as one message that
\* shows, for each result in index order (counted from 0), the marker
\* "--- Result N ---", the text body, the values of the present fields
\* among title, description, source in that order, each followed by a
\* newline, and the marker "--- End Result N ---"; no field name is
\* written, and absent fields and other fields add nothing
C16_ResultsRendering ==
    pg.pc = "returned"
    => /\ Len(pg.output) = Len(Kept)
       /\ \A j \in DOMAIN Kept :
             (IsResponse(Kept[j]) /\ Kept[j].results # <<>>)
             => LET results == Kept[j].results
                    content == pg.output[j].content
                IN  /\ pg.output[j].tag = "HumanMessage"
                    /\ InOrder(content,
                               Flatten([n \in 1..Len(results) |-> Pieces(n - 1, results[n])]), 1)
                    /\ \A k \in DOMAIN RenderedFields :
                          LET f == RenderedFields[k]
                          IN  /\ Count(content, FieldValue(f)) =
                                   Cardinality({ n \in DOMAIN results : f \in DOMAIN results[n].metadata })
                              /\ Count(content, f) = 0
                    /\ \A f \in OtherFields :
                          Count(content, FieldValue(f)) = 0 /\ Count(content, f) = 0

C16_Witness ==
    /\ pg.pc = "returned"
    /\ pg.input = << RetrievalResponse(<< Document("Alpha", {"title"}),
                                          Document("Beta", {"author", "source"}) >>) >>
    /\ Len(pg.output) = 1
    /\ Find(pg.output[1].content, "--- End Result 1 ---", 1) # 0

\* ------------------------------------------------------ behaviour of run
\* C17: each round of a run invokes at most one of the retriever and the
\* LLM program, at most once: the retriever only when the processed log
\* ends in a RetrievalRequest, the LLM program only when it is non-empty
\* and ends in none of AI message, AgentFinish, human message and
\* RetrievalRequest, and neither when it ends in a human message
C17_OneCollaboratorPerRound ==
    \A k \in DOMAIN stepCalls :
        LET c == stepCalls[k]
            log == processCalls[k].out
        IN  /\ Len(c.retriever) + Len(c.llm) <= 1
            /\ c.retriever # <<>> => (log # <<>> /\ Last(log).tag = "RetrievalRequest")
            /\ c.llm # <<>> => (log # <<>> /\ Last(log).tag \notin StepTags)
            /\ (log # <<>> /\ Last(log).tag = "HumanMessage")
                 => (c.retriever = <<>> /\ c.llm = <<>>)

\* a run whose first three rounds call nothing, the retriever, the LLM program
C17_Witness ==
    /\ Len(stepCalls) >= 3
    /\ Last(processCalls[1].out).tag = "HumanMessage"
    /\ stepCalls[1].retriever = <<>> /\ stepCalls[1].llm = <<>>
    /\ Len(stepCalls[2].retriever) = 1 /\ stepCalls[2].llm = <<>>
    /\ Len(stepCalls[3].llm) = 1 /\ stepCalls[3].retriever = <<>>

\* a run with a pass-through memory manager, at least four rounds allowed,
\* and an initial log ending in a human message
QuestionRun ==
    /\ memory_manager = "passthrough"
    /\ max_iterations >= 4
    /\ messages # <<>>
    /\ Last(messages).tag = "HumanMessage"

\* C18: retrieval precedes generation: in such a run the first event
\* produced is RetrievalRequest(query = C), the second is the retriever's
\* response to it, the LLM program is first invoked in the third round,
\* after both were delivered and on a log that holds them, and if its
\* output ends in an AI message the run ends after one more, empty, round
C18_RetrievalPrecedesGeneration ==
    QuestionRun
    => /\ Len(produced) >= 1
            => produced[1] = RetrievalRequest(Last(messages).content)
       /\ Len(produced) >= 2
            => /\ Len(stepCalls) >= 2
               /\ Len(stepCalls[2].retriever) = 1
               /\ stepCalls[2].retriever[1].arg = produced[1]
               /\ produced[2] = stepCalls[2].retriever[1].out.val[1]
       /\ \A k \in DOMAIN stepCalls : stepCalls[k].llm # <<>> => k >= 3
       /\ Len(stepCalls) >= 3
            => /\ Len(produced) >= 2
               /\ Len(stepCalls[3].llm) = 1
               /\ stepCalls[3].llm[1].arg = messages \o <<produced[1], produced[2]>>
       /\ (/\ Len(stepCalls) >= 3
           /\ stepCalls[3].ret # <<>>
           /\ Last(stepCalls[3].ret).tag = "AIMessage")
            => /\ Len(stepCalls) <= 4
               /\ Terminated
                    => /\ pc = "done"
                       /\ Len(stepCalls) = 4
                       /\ stepCalls[4].ret = <<>>
                       /\ produced = SubSeq(produced, 1, 2) \o stepCalls[3].ret

C18_Witness ==
    /\ QuestionRun
    /\ Len(messages) = 2
    /\ pc = "done"
    /\ Len(stepCalls) = 4
    /\ stepCalls[3].ret = <<AIMessage("a")>>
    /\ produced[2] = RetrievalResponse(<<Doc1>>)

\* C19: with a memory manager that returns its input, the log passed to
\* step in every round is the caller's initial messages followed by the
\* events produced so far, in production order; the log only grows by
\* appending, and in a round it grows by exactly that round's step output
C19_LogIsInitialPlusProduced ==
    /\ [](memory_manager = "passthrough"
            => /\ \A k \in DOMAIN stepCalls :
                     /\ stepCalls[k].arg = messages \o Flatten(StepRets(k - 1))
                     /\ k > 1 => stepCalls[k].arg = stepCalls[k - 1].arg \o stepCalls[k - 1].ret
               /\ pc = "step" => all_messages = messages \o produced
               /\ pc = "test" => stepCalls[Len(stepCalls)].arg = messages \o produced)
    /\ [][memory_manager = "passthrough" => IsPrefix(all_messages, all_messages')]_vars

C19_Witness ==
    /\ memory_manager = "passthrough"
    /\ messages # <<>>
    /\ pc = "step"
    /\ Len(stepCalls) >= 3
    /\ Len(produced) >= 4
    /\ all_messages = messages \o produced

\* C20: run and step leave the caller's messages sequence as it was: run
\* works on a copy taken at its start, so whatever list the memory manager
\* returns and however many rounds are run, the caller's list holds the
\* same events in the same order, and step does not modify the log it is
\* given
C20_CallerMessagesUnchanged ==
    /\ [](caller_list = messages /\ log_ref # "caller")
    /\ [][pc = "step" => UNCHANGED << all_messages, caller_list >>]_vars

C20_Witness ==
    /\ memory_manager = "passthrough"
    /\ log_ref = "copy"
    /\ messages # <<>>
    /\ pc = "done"
    /\ Len(stepCalls) >= 3
    /\ Len(all_messages) > Len(messages)
    /\ caller_list = messages
====
